---------------------------- MODULE Spec2Model ----------------------------
(***************************************************************************)
(* Hash computation and batching engine of NiallsCPP11Utilities            *)
(* (Int128_256.cpp): the reference SHA-256 path Hash256::AddSHA256To, the  *)
(* 4-lane scheduler Hash256::BatchAddSHA256To and the fast-hash combiner   *)
(* Hash128/Hash256::AddFastHashTo; with them the comparison of the         *)
(* fixed-width values, the random fills, and the utilities of              *)
(* NiallsCPP11Utilities.hpp: Undoer, StaticTypeRegistry, FromCodePoint.    *)
(* Each group of operations has its own specification over the same        *)
(* variables.                                                              *)
(*                                                                         *)
(* The compression function (__sha256_osol, and one lane of __sha256_int)  *)
(* is one uninterpreted injective function: a 256-bit state is the value   *)
(* the object was constructed with plus the sequence of 64-byte blocks     *)
(* folded into it so far.  A block is named by what it holds: <<buf, off,  *)
(* len>> is len bytes of buffer buf from byte offset off, followed by      *)
(* zero bytes up to 64.  Two digests are equal exactly when the same       *)
(* blocks were compressed in the same order onto the same starting value.  *)
(***************************************************************************)
EXTENDS Integers, Sequences, FiniteSets, TLC

\* ----------------------------------------------------------------- bounds
\* most messages in one batch call (5 > the 4 lanes, so a refill is possible)
MaxMsgs == 5
\* most full 64-byte blocks in one message
MaxBlocks == 2
\* most direct AddSHA256To calls on the single Hash256 object
MaxAdds == 2
\* most BatchAddSHA256To calls on the same array
MaxCalls == 2
\* most AddFastHashTo calls on each of the Hash128 and the Hash256 object
MaxFast == 2
\* number of distinct data buffers handed to AddFastHashTo
MaxBufs == 2

\* ------------------------------------------------------ program constants
\* sizeof(__sha256_block_t)
BlockSize == 64
\* number of interleaved SHA streams (blks[4], lengths[4], out[4])
Lanes == 4
\* the null pointer (0 in the source); -1 here because message, buffer and
\* slot indices start at 0
NULL == -1

\* size_t is modelled 16 bits wide: every length of the model is far below
SIZE_MAX == (2 ^ 16) - 1

\* the lengths a message may have: every number of full blocks up to
\* MaxBlocks, with no tail or a 63-byte tail
TailLens == {0, BlockSize - 1}
Lengths == {BlockSize * k + t : k \in 0 .. MaxBlocks, t \in TailLens}
Msgs == 0 .. MaxMsgs - 1
Slots == 0 .. Lanes - 1

VARIABLES
    ndebug,        \* the build: TRUE when compiled with NDEBUG (asserts off)
    pc,            \* position of the BatchAddSHA256To call
    hashs,         \* the caller's Hash256 array handed to the batch call
    datas,         \* the caller's data[] array: buffer of each message
    lens,          \* the caller's length[] array
    count,         \* the value of parameter no at entry
    no,            \* parameter no, counted down as messages are loaded
    next,          \* how far data, hashs and length have been advanced
    n,             \* index of the fill loop
    blks,          \* blks[4]
    lengths,       \* lengths[4]
    out,           \* out[4]
    tobefinished,  \* vector of (hash, tail pointer, tail length)
    done,          \* local done
    start,         \* the Hash256 array as it was when the call began
    calls,         \* batch calls begun so far
    hash,          \* one Hash256 object used with AddSHA256To directly
    adds,          \* the direct calls made on hash so far
    last,          \* the last direct call: its arguments and the value before
    h128,          \* one Hash128 object
    h256,          \* one Hash256 object used with AddFastHashTo
    seed128,       \* h128 as constructed
    seed256,       \* h256 as constructed
    in128,         \* the (data, length) pairs hashed into h128 so far
    in256,         \* the (data, length) pairs hashed into h256 so far
    ppc,           \* position of a Hash256::AddFastHashTo call run step by step
    mem,           \* its memory: the object's halves lo, hi and the local cityhash
    parg,          \* its arguments, the object before it, whether the loop is parallel
    it,            \* the position of loop iteration 0 and of loop iteration 1
    tmp,           \* the seed each iteration has read
    acc,           \* the locations each iteration has read and has written
    pcalls,        \* calls begun so far
    cpc,           \* position of a comparison of two fixed-width values
    cx,            \* its left operand, as stored bytes
    cy,            \* its right operand, as stored bytes
    cres,          \* what each comparison returned
    lp64,          \* whether the build defines __LP64__
    fpc,           \* position of a random fill
    fcall,         \* the call: which function, element size, number of elements
    ftodo,         \* the FillQualityRandom bodies the call has still to run
    frun,          \* the running FillRandom: generator, length, thisno, n, tofill, remaining
    feff,          \* what the call has done: generators seeded, bytes past the buffer, counter wrapped
    fills,         \* calls begun so far
    ug,            \* the Undoer guards: lifetime, callable, _dismissed, and what was done to each
    uruns,         \* how often each undo action has been invoked
    uev,           \* the last operation on a guard and what it found and did
    uops,          \* operations on guards so far
    rpc,           \* the process as the registry leaves it: ok, fault or undefined
    rcached,       \* whether registryStorage has cached _registryStorage
    rlive,         \* whether the container exists (the slot is non-null)
    rcont,         \* the container: the registered items in order
    rhist,         \* the RegisterData and UnregisterData calls made so far
    robs,          \* the last size() and iteration: after how many calls, and what they gave
    mlist,         \* the map handed to FromCodePoint: its entries in key order
    maddr,         \* the code address looked up
    mres,          \* what the call did: the iterator returned, or a fault, or undefined
    mcalls         \* FromCodePoint calls so far

shaVars == <<ndebug, pc, hashs, datas, lens, count, no, next, n, blks,
             lengths, out, tobefinished, done, start, calls>>
oneVars == <<hash, adds, last>>
fastVars == <<h128, h256, seed128, seed256, in128, in256>>
parVars == <<ppc, mem, parg, it, tmp, acc, pcalls>>
cmpVars == <<cpc, cx, cy, cres>>
fillVars == <<lp64, fpc, fcall, ftodo, frun, feff, fills>>
undoVars == <<ug, uruns, uev, uops>>
regVars == <<rpc, rcached, rlive, rcont, rhist, robs>>
mapVars == <<mlist, maddr, mres, mcalls>>
utilVars == <<parVars, cmpVars, fillVars, undoVars, regVars, mapVars>>

\* what the steps of each group of operations leave alone
parFrame == <<shaVars, oneVars, fastVars, cmpVars, fillVars, undoVars, regVars, mapVars>>
cmpFrame == <<shaVars, oneVars, fastVars, parVars, fillVars, undoVars, regVars, mapVars>>
fillFrame == <<shaVars, oneVars, fastVars, parVars, cmpVars, undoVars, regVars, mapVars>>
undoFrame == <<shaVars, oneVars, fastVars, parVars, cmpVars, fillVars, regVars, mapVars>>
regFrame == <<shaVars, oneVars, fastVars, parVars, cmpVars, fillVars, undoVars, mapVars>>
mapFrame == <<shaVars, oneVars, fastVars, parVars, cmpVars, fillVars, undoVars, regVars>>
vars == <<shaVars, oneVars, fastVars, utilVars>>

\* --------------------------------------------------------- Hash256 values
\* Hash256(): the all-zero value, nothing folded in
NullHash == [init |-> "null", blocks |-> <<>>]

\* one application of the compression function to state h
osol(h, blk) == [h EXCEPT !.blocks = Append(@, blk)]

\* the pointer p = <<buf, off>> read as a block of len bytes, zero padded
BlockAt(p, len) == <<p[1], p[2], len>>

NullBlk == <<NULL, 0>>

\* ----------------------------------------------------------- AddSHA256To
RECURSIVE AddFullBlocks(_, _, _, _)
AddFullBlocks(h, buf, k, cnt) ==
    IF k < cnt
    THEN AddFullBlocks(osol(h, BlockAt(<<buf, k * BlockSize>>, BlockSize)),
                       buf, k + 1, cnt)
    ELSE h

\* AddSHA256To with the test of remaining dropped: a padded block always
AddSHA256ToAlwaysPads(h, buf, length) ==
    LET cnt == length \div BlockSize
        remaining == length - (cnt * BlockSize)
        h1 == AddFullBlocks(h, buf, 0, cnt)
    IN  osol(h1, BlockAt(<<buf, cnt * BlockSize>>, remaining))

AddSHA256To(h, buf, length) ==
    LET cnt == length \div BlockSize
        remaining == length - (cnt * BlockSize)
        h1 == AddFullBlocks(h, buf, 0, cnt)
    IN  IF remaining # 0
        THEN osol(h1, BlockAt(<<buf, cnt * BlockSize>>, remaining))
        ELSE h1

\* ------------------------------------------------------ BatchAddSHA256To
\* --no on a size_t
DecSize(x) == (x + SIZE_MAX) % (SIZE_MAX + 1)

\* lengths[n] -= sizeof(__sha256_block_t) on a size_t (the source line
\* carries one closing parenthesis too many; this is the statement it spells)
SubBlock(x) == (x + (SIZE_MAX + 1) - BlockSize) % (SIZE_MAX + 1)

\* blks[n]++ : one __sha256_block_t further
NextBlk(p) == <<p[1], p[2] + BlockSize>>

\* __sha256_int(blks, out): lane s folds the block at b[s] into *o[s]; a
\* store through a null o[s] reaches no Hash256 of the caller
RECURSIVE sha256_int(_, _, _, _)
sha256_int(hs, b, o, s) ==
    IF s = Lanes
    THEN hs
    ELSE sha256_int(IF o[s] = NULL
                    THEN hs
                    ELSE [hs EXCEPT ![o[s]] = osol(@, BlockAt(b[s], BlockSize))],
                    b, o, s + 1)

\* the loop over tobefinished: each deferred tail, zero padded to one block,
\* goes through __sha256_osol into its Hash256
RECURSIVE Finish(_, _, _)
Finish(hs, tbf, k) ==
    IF k > Len(tbf)
    THEN hs
    ELSE Finish([hs EXCEPT ![tbf[k][1]] = osol(@, BlockAt(tbf[k][2], tbf[k][3]))],
                tbf, k + 1)

\* what the two debug assertions require of every slot
SlotsReady ==
    \A s \in Slots : blks[s] # NullBlk /\ lengths[s] >= BlockSize

\* the data[] arrays of the model: every message its own buffer, or all
\* messages the same buffer
DataArrays == {[i \in Msgs |-> i], [i \in Msgs |-> 0]}

\* the length[] arrays of cnt messages (as sequences, first message first)
RECURSIVE LengthArrays(_)
LengthArrays(cnt) ==
    IF cnt = 0
    THEN {<<>>}
    ELSE {Append(ls, l) : ls \in LengthArrays(cnt - 1), l \in Lengths}

\* entry: the locals as declared, control at the first pass of while(!done).
\* Every data[i] is a non-null pointer, as in the callers of the tests.
BatchCall(cnt, ls, ds) ==
    /\ pc \in {"idle", "returned"}
    /\ calls < MaxCalls
    /\ calls' = calls + 1
    /\ start' = hashs
    /\ count' = cnt
    /\ no' = cnt
    /\ next' = 0
    /\ datas' = [i \in Msgs |-> IF i < cnt THEN ds[i] ELSE 0]
    /\ lens' = [i \in Msgs |-> IF i < cnt THEN ls[i + 1] ELSE 0]
    /\ blks' = [s \in Slots |-> NullBlk]
    /\ lengths' = [s \in Slots |-> 0]
    /\ out' = [s \in Slots |-> NULL]
    /\ tobefinished' = <<>>
    /\ done' = FALSE
    /\ n' = 0
    /\ pc' = "fill"
    /\ UNCHANGED <<ndebug, hashs, oneVars, fastVars, utilVars>>

\* one iteration of for(n=0; n<4; n++): load slot n when it is empty and
\* messages are left, then retire it when it holds less than one block
BatchSlot ==
    /\ pc = "fill"
    /\ LET load == blks[n] = NullBlk /\ no # 0
           blks1 == IF load THEN [blks EXCEPT ![n] = <<datas[next], 0>>] ELSE blks
           out1 == IF load THEN [out EXCEPT ![n] = next] ELSE out
           lengths1 == IF load THEN [lengths EXCEPT ![n] = lens[next]] ELSE lengths
           no1 == IF load THEN DecSize(no) ELSE no
           brk == load /\ no1 = SIZE_MAX
           retire == (~brk) /\ blks1[n] # NullBlk /\ lengths1[n] < BlockSize
       IN  /\ next' = (IF load THEN next + 1 ELSE next)
           /\ no' = no1
           /\ out' = out1
           /\ lengths' = lengths1
           /\ done' = (IF brk THEN TRUE ELSE done)
           /\ blks' = (IF retire THEN [blks1 EXCEPT ![n] = NullBlk] ELSE blks1)
           /\ tobefinished' =
                  (IF retire /\ lengths1[n] # 0
                   THEN Append(tobefinished, <<out1[n], blks1[n], lengths1[n]>>)
                   ELSE tobefinished)
           /\ IF brk \/ n + 1 = Lanes
              THEN pc' = "check" /\ n' = 0
              ELSE pc' = "fill" /\ n' = n + 1
    /\ UNCHANGED <<ndebug, hashs, datas, lens, count, start, calls, oneVars, fastVars, utilVars>>

\* after the fill loop: if(done) break, and then the loop over
\* tobefinished and the return; otherwise, every slot being ready, one
\* 4-wide step and the advance of all four slots
BatchCheck ==
    /\ pc = "check"
    /\ done \/ SlotsReady
    /\ IF done
       THEN /\ hashs' = Finish(hashs, tobefinished, 1)
            /\ pc' = "returned"
            /\ UNCHANGED <<blks, lengths>>
       ELSE /\ hashs' = sha256_int(hashs, blks, out, 0)
            /\ blks' = [s \in Slots |-> NextBlk(blks[s])]
            /\ lengths' = [s \in Slots |-> SubBlock(lengths[s])]
            /\ pc' = "fill"
    /\ UNCHANGED <<ndebug, datas, lens, count, no, next, n, out, tobefinished,
                   done, start, calls, oneVars, fastVars, utilVars>>

\* debug build, a slot not ready: assert(blks[n]) or
\* assert(lengths[n]>=sizeof(__sha256_block_t)) fails and the process aborts
BatchAssert ==
    /\ pc = "check"
    /\ ~done
    /\ ~SlotsReady
    /\ ~ndebug
    /\ pc' = "aborted"
    /\ UNCHANGED <<ndebug, hashs, datas, lens, count, no, next, n, blks, lengths,
                   out, tobefinished, done, start, calls, oneVars, fastVars, utilVars>>

\* NDEBUG build, a slot not ready: __sha256_int reads through a null block
\* pointer, which is undefined.  Either the read faults and the process
\* dies, or it yields whatever lies there and the step goes on: every lane
\* stores into *out[n], the slots advance, the lengths wrap.  What the
\* program does after that is not followed.
BatchUndefined(faults) ==
    /\ pc = "check"
    /\ ~done
    /\ ~SlotsReady
    /\ ndebug
    /\ IF faults
       THEN /\ pc' = "fault"
            /\ UNCHANGED <<hashs, blks, lengths>>
       ELSE /\ hashs' = sha256_int(hashs, blks, out, 0)
            /\ blks' = [s \in Slots |-> NextBlk(blks[s])]
            /\ lengths' = [s \in Slots |-> SubBlock(lengths[s])]
            /\ pc' = "undefined"
    /\ UNCHANGED <<ndebug, datas, lens, count, no, next, n, out, tobefinished,
                   done, start, calls, oneVars, fastVars, utilVars>>

\* ------------------------------------------- direct calls of AddSHA256To
SingleAdd(buf, length) ==
    /\ adds < MaxAdds
    /\ adds' = adds + 1
    /\ hash' = AddSHA256To(hash, buf, length)
    /\ last' = [buf |-> buf, length |-> length, before |-> hash]
    /\ UNCHANGED <<shaVars, fastVars, utilVars>>


\* ------------------------------------------------------------- rendering
\* the stored bytes of a Hash256 the model knows: those of the all-zero
\* value with no block folded in (the bytes a compression leaves are not
\* computed here, and are <<>>)
StoredBytes(h) ==
    IF h.init = "null" /\ h.blocks = <<>> THEN [k \in 1 .. 32 |-> 0] ELSE <<>>

HexDigits == <<"0", "1", "2", "3", "4", "5", "6", "7",
               "8", "9", "a", "b", "c", "d", "e", "f">>

\* lower-case hexadecimal, first stored byte first, two characters a byte
RECURSIVE ToHex(_, _)
ToHex(bytes, k) ==
    IF k > Len(bytes)
    THEN ""
    ELSE HexDigits[(bytes[k] \div 16) + 1] \o HexDigits[(bytes[k] % 16) + 1]
             \o ToHex(bytes, k + 1)

asHexString(h) == ToHex(StoredBytes(h), 1)

\* the digest the SHA256/works test expects of the empty string
EmptyStringDigest ==
    "e3b0c44298fc1c149afbf4c8996fb92427ae41e4649b934ca495991b7852b855"

\* ------------------------------------------------------------ fast hashes
\* A 128-bit value is what it was constructed from and the hash runs made
\* over it since: SpookyHash::Hash128 takes *hash1, *hash2 as seed and
\* leaves the result there, CityHash128WithSeed takes the seed by value.
\* Both are uninterpreted and injective in (data, length, seed).
SpookyHash128(buf, length, seed) == Append(seed, <<"spooky", buf, length>>)

CityHash128WithSeed(buf, length, seed) == Append(seed, <<"city", buf, length>>)

\* the 128-bit values an Int128 is constructed with: all zero (the default
\* constructor) or the bytes of a caller's buffer
Raw128 == {<<>>, << <<"raw", 0, 0>> >>}

\* Hash128::AddFastHashTo: spookyhash points at the object's own storage
Hash128AddFastHashTo(h, buf, length) == SpookyHash128(buf, length, h)

\* Hash256::AddFastHashTo with cityhash read from the lower two words
Hash256AddFastHashToLowSeed(h, buf, length) ==
    LET cityhash == h.lo
    IN  [lo |-> SpookyHash128(buf, length, h.lo),
         hi |-> CityHash128WithSeed(buf, length, cityhash)]

\* Hash256::AddFastHashTo: iteration n=0 hashes into the lower two words in
\* place, iteration n=1 into the local cityhash (a copy of the upper two
\* words), which is stored back after the loop
Hash256AddFastHashTo(h, buf, length) ==
    LET cityhash == h.hi
    IN  [lo |-> SpookyHash128(buf, length, h.lo),
         hi |-> CityHash128WithSeed(buf, length, cityhash)]

\* the lengths handed to AddFastHashTo: empty, and the 1024 bytes
\* from which the two iterations may run in parallel
FastLens == {0, 1024}
FastBufs == 0 .. MaxBufs - 1

Add128(buf, length) ==
    /\ Len(in128) < MaxFast
    /\ h128' = Hash128AddFastHashTo(h128, buf, length)
    /\ in128' = Append(in128, <<buf, length>>)
    /\ UNCHANGED <<shaVars, oneVars, utilVars, h256, seed128, seed256, in256>>

Add256(buf, length) ==
    /\ Len(in256) < MaxFast
    /\ h256' = Hash256AddFastHashTo(h256, buf, length)
    /\ in256' = Append(in256, <<buf, length>>)
    /\ UNCHANGED <<shaVars, oneVars, utilVars, h128, seed128, seed256, in128>>


\* -------------------------- Hash256::AddFastHashTo, iteration by iteration
\* most step-by-step AddFastHashTo calls
MaxParCalls == 2

\* from this length on the loop is an OpenMP parallel loop
ParallelFrom == 1024

\* the location iteration n=1 takes its seed from, were it the lower half
CitySeedLocLow == "lo"

\* the location iteration n=1 takes its seed from: the local cityhash
CitySeedLoc == "cityhash"

\* entry: spookyhash points at the lower half, cityhash is a copy of the
\* upper half; the two iterations are still to run
ParCall(buf, length) ==
    /\ ppc = "idle"
    /\ pcalls < MaxParCalls
    /\ pcalls' = pcalls + 1
    /\ parg' = [buf |-> buf, length |-> length,
                before |-> [lo |-> mem.lo, hi |-> mem.hi],
                parallel |-> (length >= ParallelFrom)]
    /\ mem' = [mem EXCEPT !.cityhash = mem.hi]
    /\ it' = <<"todo", "todo">>
    /\ tmp' = <<(<<>>), (<<>>)>>
    /\ acc' = [r0 |-> {}, w0 |-> {}, r1 |-> {}, w1 |-> {}]
    /\ ppc' = "loop"
    /\ UNCHANGED parFrame

\* iteration n=0 begins: SpookyHash::Hash128 reads its seed through spookyhash
SpookyRead ==
    /\ ppc = "loop"
    /\ it[1] = "todo"
    /\ tmp' = [tmp EXCEPT ![1] = mem.lo]
    /\ acc' = [acc EXCEPT !.r0 = @ \cup {"lo"}]
    /\ it' = [it EXCEPT ![1] = "read"]
    /\ UNCHANGED <<parFrame, ppc, mem, parg, pcalls>>

\* iteration n=0 ends: the result is left where spookyhash points
SpookyWrite ==
    /\ ppc = "loop"
    /\ it[1] = "read"
    /\ mem' = [mem EXCEPT !.lo = SpookyHash128(parg.buf, parg.length, tmp[1])]
    /\ acc' = [acc EXCEPT !.w0 = @ \cup {"lo"}]
    /\ it' = [it EXCEPT ![1] = "done"]
    /\ UNCHANGED <<parFrame, ppc, parg, tmp, pcalls>>

\* iteration n=1 begins: the seed argument is read.  In a loop that is not
\* parallel this is after iteration n=0.
CityRead ==
    /\ ppc = "loop"
    /\ it[2] = "todo"
    /\ parg.parallel \/ it[1] = "done"
    /\ tmp' = [tmp EXCEPT ![2] = mem[CitySeedLoc]]
    /\ acc' = [acc EXCEPT !.r1 = @ \cup {CitySeedLoc}]
    /\ it' = [it EXCEPT ![2] = "read"]
    /\ UNCHANGED <<parFrame, ppc, mem, parg, pcalls>>

\* iteration n=1 ends: the result is assigned to cityhash
CityWrite ==
    /\ ppc = "loop"
    /\ it[2] = "read"
    /\ mem' = [mem EXCEPT
                 !.cityhash = CityHash128WithSeed(parg.buf, parg.length, tmp[2])]
    /\ acc' = [acc EXCEPT !.w1 = @ \cup {"cityhash"}]
    /\ it' = [it EXCEPT ![2] = "done"]
    /\ UNCHANGED <<parFrame, ppc, parg, tmp, pcalls>>

\* after the loop (and the barrier that ends a parallel loop): cityhash is
\* stored into the upper half and the call returns
ParStore ==
    /\ ppc = "loop"
    /\ it = <<"done", "done">>
    /\ mem' = [mem EXCEPT !.hi = mem.cityhash]
    /\ ppc' = "idle"
    /\ UNCHANGED <<parFrame, parg, it, tmp, acc, pcalls>>

\* --------------------------------------- comparison of fixed-width values
\* stored bytes of the narrow and of the wide value type, scaled down so
\* that the numeric value of either fits the checker's integers
IntWidths == {2, 3}

\* the byte values the operands are built from: zero, one, the byte the
\* tests set, and the largest byte
ByteVals == {0, 1, 78, 255}

\* the values of one width
IntVals(w) == [1 .. w -> ByteVals]

\* the number a value stands for, the first stored byte most significant
RECURSIVE Value(_)
Value(x) ==
    IF Len(x) = 0 THEN 0
    ELSE Value(SubSeq(x, 1, Len(x) - 1)) * 256 + x[Len(x)]

\* memcmp comparing the bytes as signed char
RECURSIVE memcmpSigned(_, _)
memcmpSigned(x, y) ==
    IF Len(x) = 0 THEN 0
    ELSE IF Head(x) # Head(y)
         THEN LET SignedChar(b) == IF b >= 128 THEN b - 256 ELSE b
              IN  SignedChar(Head(x)) - SignedChar(Head(y))
    ELSE memcmpSigned(Tail(x), Tail(y))

\* memcmp(&x, &y, sizeof x): the difference of the first pair of bytes
\* that differ, compared as unsigned char, 0 when none differs
RECURSIVE memcmp(_, _)
memcmp(x, y) ==
    IF Len(x) = 0 THEN 0
    ELSE IF Head(x) # Head(y) THEN Head(x) - Head(y)
    ELSE memcmp(Tail(x), Tail(y))

\* the comparison operators: equality of all bytes, and the order of the
\* numbers the operands stand for
OpEq(x, y) == \A i \in 1 .. Len(x) : x[i] = y[i]
OpNe(x, y) == ~OpEq(x, y)
OpLt(x, y) == Value(x) < Value(y)
OpGt(x, y) == Value(x) > Value(y)
OpLe(x, y) == Value(x) <= Value(y)
OpGe(x, y) == Value(x) >= Value(y)

\* one pass of the comparison test: every operator and memcmp applied to
\* the same pair
Compare ==
    /\ cpc = "ready"
    /\ cres' = [lt |-> OpLt(cx, cy), eq |-> OpEq(cx, cy), gt |-> OpGt(cx, cy),
                le |-> OpLe(cx, cy), ge |-> OpGe(cx, cy), ne |-> OpNe(cx, cy),
                mc |-> memcmp(cx, cy)]
    /\ cpc' = "compared"
    /\ UNCHANGED <<cmpFrame, cx, cy>>

\* ------------------------------------------------------------ random fills
\* most random fills begun
MaxFills == 2

\* sizeof(Int128) and sizeof(Int256)
IntSizes == {16, 32}

\* the element counts handed to the fills: none, few, and counts whose
\* byte length no longer fits a size_t
FillNos == {0, 1, 2, (SIZE_MAX + 1) \div 32, (SIZE_MAX + 1) \div 16,
            ((SIZE_MAX + 1) \div 16) + 1, SIZE_MAX}

\* the lengths handed to FillRandom itself: multiples of every word size
\* and lengths that are not
FillLens == {0, 8, 13}

\* sizeof(generator_type::result_type)
GenWord(gen) ==
    CASE gen = "mt19937_64" -> 8
      [] gen = "mt19937" -> 4
      [] gen = "ranlux48_base" -> 8
      [] gen = "ranlux24_base" -> 4

\* the generators FillRandom is instantiated with
Generators == {"mt19937_64", "mt19937"}

\* the body of FillQualityRandom: the Mersenne twister of the build
QualityBody(size, cnt, lp) ==
    [size |-> size, no |-> cnt, gen |-> IF lp THEN "mt19937_64" ELSE "mt19937"]

\* the statements after the return in FillFastRandom: the same body with
\* the ranlux generator of the build
LegacyBody(size, cnt, lp) ==
    [size |-> size, no |-> cnt,
     gen |-> IF lp THEN "ranlux48_base" ELSE "ranlux24_base"]

\* FillQualityRandom(ints, no) runs its own body
FillQualityRandom(size, cnt, lp) == <<QualityBody(size, cnt, lp)>>

\* FillFastRandom without its return statement
FillFastRandomLegacy(size, cnt, lp) ==
    <<QualityBody(size, cnt, lp), LegacyBody(size, cnt, lp)>>

\* FillFastRandom(ints, no): FillQualityRandom(ints, no); return;
FillFastRandom(size, cnt, lp) == FillQualityRandom(size, cnt, lp)

NoRun == [gen |-> "none", length |-> 0, thisno |-> 0, n |-> 0, tofill |-> 0,
          remaining |-> 0]

NoEffect == [gens |-> <<>>, oob |-> FALSE, wrapped |-> FALSE]

\* FillRandom<generator_type>(buffer, length) up to the first loop:
\* thislength, thisno, one seed drawn from random_device
FillRandomEntry(gen, length) ==
    LET w == GenWord(gen)
        thislength == length - (length % w)
    IN  [gen |-> gen, length |-> length, thisno |-> thislength \div w, n |-> 0,
         tofill |-> 0, remaining |-> 0]

\* a call of Int128:: or Int256::FillFastRandom or FillQualityRandom
FillCall(api, size, cnt) ==
    /\ fpc \in {"idle", "returned"}
    /\ fills < MaxFills
    /\ fills' = fills + 1
    /\ fcall' = [api |-> api, size |-> size, no |-> cnt]
    /\ ftodo' = IF api = "fast" THEN FillFastRandom(size, cnt, lp64)
                ELSE FillQualityRandom(size, cnt, lp64)
    /\ frun' = NoRun
    /\ feff' = NoEffect
    /\ fpc' = "enter"
    /\ UNCHANGED <<fillFrame, lp64>>

\* a call of FillRandom<gen>(buffer, length) itself
FillDirect(gen, length) ==
    /\ fpc \in {"idle", "returned"}
    /\ fills < MaxFills
    /\ fills' = fills + 1
    /\ fcall' = [api |-> "direct", size |-> 1, no |-> length]
    /\ ftodo' = <<>>
    /\ frun' = FillRandomEntry(gen, length)
    /\ feff' = [NoEffect EXCEPT !.gens = <<[gen |-> gen, length |-> length]>>]
    /\ fpc' = "words"
    /\ UNCHANGED <<fillFrame, lp64>>

\* size_t length=no*sizeof(*ints)
FillLength(size, cnt) == (cnt * size) % (SIZE_MAX + 1)

\* the overflow test left out
FillOverflowUnchecked(size, cnt) == FALSE

\* if(no && no!=length/sizeof(*ints)) abort();
FillOverflow(size, cnt) == cnt # 0 /\ cnt # FillLength(size, cnt) \div size

\* the body of FillQualityRandom: length=no*sizeof(*ints), abort() when the
\* product does not divide back, else FillRandom<generator_type>
FillEnter ==
    /\ fpc = "enter"
    /\ ftodo # <<>>
    /\ LET b == Head(ftodo)
           length == FillLength(b.size, b.no)
       IN  IF FillOverflow(b.size, b.no)
           THEN /\ fpc' = "aborted"
                /\ UNCHANGED <<frun, feff>>
           ELSE /\ fpc' = "words"
                /\ frun' = FillRandomEntry(b.gen, length)
                /\ feff' = [feff EXCEPT
                              !.gens = Append(@, [gen |-> b.gen, length |-> length])]
    /\ ftodo' = Tail(ftodo)
    /\ UNCHANGED <<fillFrame, lp64, fcall, fills>>

\* for(n=0; n<thisno; n++) *tofill++=gen(); then the remainder loop is
\* entered with remaining=length-thislength
FillWord ==
    /\ fpc = "words"
    /\ IF frun.n < frun.thisno
       THEN /\ frun' = [frun EXCEPT !.n = @ + 1, !.tofill = @ + GenWord(frun.gen)]
            /\ fpc' = fpc
       ELSE /\ frun' = [frun EXCEPT
                          !.remaining = frun.length - frun.thisno * GenWord(frun.gen)]
            /\ fpc' = "remainder"
    /\ UNCHANGED <<fillFrame, lp64, fcall, ftodo, feff, fills>>

\* the remainder loop.  While remaining>0: *tofill++=gen() stores a whole
\* word, then remaining-=sizeof(result_type) on a size_t; a store that
\* reaches past buffer+length is undefined: it faults or the loop goes on.
\* When remaining is 0 FillRandom returns, and the calling function goes
\* on to its next statement or returns.
FillRemainder(faults) ==
    /\ fpc = "remainder"
    /\ LET w == GenWord(frun.gen)
           past == frun.tofill + w > frun.length \/ feff.oob
       IN  IF frun.remaining > 0
           THEN IF past /\ faults
                THEN /\ fpc' = "fault"
                     /\ feff' = [feff EXCEPT !.oob = TRUE]
                     /\ UNCHANGED frun
                ELSE /\ fpc' = fpc
                     /\ feff' = [feff EXCEPT !.oob = past,
                                             !.wrapped = @ \/ frun.remaining < w]
                     /\ frun' = [frun EXCEPT
                                   !.tofill = (@ + w) % (SIZE_MAX + 1),
                                   !.remaining = (@ - w) % (SIZE_MAX + 1)]
           ELSE /\ fpc' = IF ftodo = <<>> THEN "returned" ELSE "enter"
                /\ UNCHANGED <<frun, feff>>
    /\ UNCHANGED <<fillFrame, lp64, fcall, ftodo, fills>>

\* ----------------------------------------------------------------- Undoer
\* most operations on the guards
MaxUndoOps == 5

\* the guards of a scope
Guards == {1, 2}

\* a null callable (Undoer(false ? _foo : 0)); any other callable is named
\* after the guard it was handed to
NullCall == 0

\* a guard that has not been constructed
NoGuard == [life |-> "none", call |-> NullCall, dis |-> FALSE, called |-> FALSE,
            given |-> FALSE, ran |-> 0]

\* int_trigger with the test of _dismissed left out
IntTriggersUndismissed(g) == g.call # NullCall

\* int_trigger: whether undoer() is invoked
IntTriggers(g) == ~g.dis /\ g.call # NullCall

\* int_trigger: the action counts after it
RunsAfterTrigger(g, runs) ==
    IF IntTriggers(g) THEN [runs EXCEPT ![g.call] = @ + 1] ELSE runs

\* int_trigger: the guard after it
GuardAfterTrigger(g) == IF IntTriggers(g) THEN [g EXCEPT !.dis = TRUE] ELSE g

\* how many invocations a step added
Ran(before, after) ==
    IF \E a \in Guards : after[a] # before[a] THEN 1 ELSE 0

\* auto undo=Undoer(c): foo is constructed not dismissed; the returned guard
\* is foo itself when the copy is elided, else it is move-constructed from
\* foo, which is then destroyed
UndoerMake(g, c, elided) ==
    /\ uops < MaxUndoOps
    /\ ug[g].life = "none"
    /\ LET foo == [NoGuard EXCEPT !.life = "alive", !.call = c]
           moved == [foo EXCEPT !.dis = TRUE]
           runs == IF elided THEN uruns ELSE RunsAfterTrigger(moved, uruns)
       IN  /\ ug' = [ug EXCEPT ![g] = foo]
           /\ uruns' = runs
           /\ uev' = [op |-> "make", guard |-> g, dis |-> FALSE, call |-> c,
                      ran |-> Ran(uruns, runs)]
    /\ uops' = uops + 1
    /\ UNCHANGED undoFrame

\* UndoerImpl(UndoerImpl &&o): guard g is constructed from guard o
UndoerMove(g, o) ==
    /\ uops < MaxUndoOps
    /\ ug[g].life = "none"
    /\ ug[o].life = "alive"
    /\ ug' = [ug EXCEPT ![g] = [NoGuard EXCEPT !.life = "alive",
                                                !.call = ug[o].call,
                                                !.dis = ug[o].dis],
                        ![o] = [@ EXCEPT !.dis = TRUE, !.given = TRUE]]
    /\ uev' = [op |-> "move", guard |-> g, dis |-> ug[o].dis, call |-> ug[o].call,
               ran |-> 0]
    /\ uops' = uops + 1
    /\ UNCHANGED <<undoFrame, uruns>>

\* operator=(UndoerImpl &&o): g=std::move(o)
UndoerAssign(g, o) ==
    /\ uops < MaxUndoOps
    /\ g # o
    /\ ug[g].life = "alive"
    /\ ug[o].life = "alive"
    /\ uruns' = RunsAfterTrigger(ug[g], uruns)
    /\ ug' = [ug EXCEPT ![g] = [@ EXCEPT !.call = ug[o].call, !.dis = ug[o].dis,
                                         !.called = FALSE, !.given = FALSE],
                        ![o] = [@ EXCEPT !.dis = TRUE, !.given = TRUE]]
    /\ uev' = [op |-> "assign", guard |-> g, dis |-> ug[g].dis, call |-> ug[g].call,
               ran |-> Ran(uruns, uruns')]
    /\ uops' = uops + 1
    /\ UNCHANGED undoFrame

\* dismiss(bool d=true)
UndoerDismiss(g, d) ==
    /\ uops < MaxUndoOps
    /\ ug[g].life = "alive"
    /\ ug' = [ug EXCEPT ![g] = [@ EXCEPT !.dis = d, !.called = @ \/ d]]
    /\ uev' = [op |-> "dismiss", guard |-> g, dis |-> ug[g].dis, call |-> ug[g].call,
               ran |-> 0]
    /\ uops' = uops + 1
    /\ UNCHANGED <<undoFrame, uruns>>

\* undismiss(bool d=true)
UndoerUndismiss(g, d) ==
    /\ uops < MaxUndoOps
    /\ ug[g].life = "alive"
    /\ ug' = [ug EXCEPT ![g] = [@ EXCEPT !.dis = ~d, !.called = @ \/ ~d]]
    /\ uev' = [op |-> "undismiss", guard |-> g, dis |-> ug[g].dis,
               call |-> ug[g].call, ran |-> 0]
    /\ uops' = uops + 1
    /\ UNCHANGED <<undoFrame, uruns>>

\* ~UndoerImpl(): the guard goes out of scope
UndoerDestroy(g) ==
    /\ ug[g].life = "alive"
    /\ uruns' = RunsAfterTrigger(ug[g], uruns)
    /\ ug' = [ug EXCEPT ![g] = [GuardAfterTrigger(@) EXCEPT
                                  !.life = "destroyed",
                                  !.ran = Ran(uruns, uruns')]]
    /\ uev' = [op |-> "destroy", guard |-> g, dis |-> ug[g].dis, call |-> ug[g].call,
               ran |-> Ran(uruns, uruns')]
    /\ UNCHANGED <<undoFrame, uops>>

\* ----------------------------------------------------- StaticTypeRegistry
\* most RegisterData and UnregisterData calls
MaxRegOps == 4

\* the values registered by the tests
RegVals == {5, 6, 7}

\* how often value c occurs in the calls h as operation op
RECURSIVE CountOps(_, _, _)
CountOps(h, op, c) ==
    IF h = <<>> THEN 0
    ELSE (IF Head(h) = <<op, c>> THEN 1 ELSE 0) + CountOps(Tail(h), op, c)

\* r->erase(std::remove(r->begin(), r->end(), c), r->end())
EraseRemove(r, c) == SelectSeq(r, LAMBDA x : x # c)

\* r->erase(--r->end())
EraseLast(r) == SubSeq(r, 1, Len(r) - 1)

\* registryStorage(): the first call caches the slot and creates the
\* container if the slot is null; later calls return the cached slot as
\* it is
registryStorage ==
    IF rcached \/ rlive THEN [live |-> rlive, cont |-> rcont]
    ELSE [live |-> TRUE, cont |-> <<>>]

\* the step that dereferences a null container pointer, or *rbegin() of
\* an empty container: undefined, it faults or goes on with garbage
RegUndefined(faults) ==
    /\ rpc' = IF faults THEN "fault" ELSE "undefined"
    /\ rlive' = registryStorage.live
    /\ rcont' = registryStorage.cont

\* RegisterData(c): (*registryStorage())->push_back(c)
RegisterData(c, faults) ==
    /\ rpc = "ok"
    /\ Len(rhist) < MaxRegOps
    /\ rhist' = Append(rhist, <<"reg", c>>)
    /\ rcached' = TRUE
    /\ IF registryStorage.live
       THEN /\ rcont' = Append(registryStorage.cont, c)
            /\ rlive' = TRUE
            /\ rpc' = rpc
       ELSE RegUndefined(faults)
    /\ UNCHANGED <<regFrame, robs>>

\* UnregisterData(c), called by the destructor of the DataRegistration
\* that registered c
UnregisterData(c, faults) ==
    /\ rpc = "ok"
    /\ Len(rhist) < MaxRegOps
    /\ CountOps(rhist, "reg", c) > CountOps(rhist, "unreg", c)
    /\ rhist' = Append(rhist, <<"unreg", c>>)
    /\ rcached' = TRUE
    /\ LET r == registryStorage.cont
       IN  IF registryStorage.live /\ r # <<>>
           THEN LET erased == IF r[Len(r)] = c THEN EraseLast(r)
                              ELSE EraseRemove(r, c)
                IN  /\ rcont' = erased
                    /\ rlive' = (erased # <<>>)
                    /\ rpc' = rpc
           ELSE RegUndefined(faults)
    /\ UNCHANGED <<regFrame, robs>>

\* size() and an iteration over the registry: both go through __me(),
\* which returns **registryStorage()
RegObserve(faults) ==
    /\ rpc = "ok"
    /\ rcached' = TRUE
    /\ IF registryStorage.live
       THEN /\ robs' = [at |-> Len(rhist), size |-> Len(registryStorage.cont),
                        items |-> registryStorage.cont]
            /\ rlive' = TRUE
            /\ rcont' = registryStorage.cont
            /\ rpc' = rpc
       ELSE /\ robs' = [at |-> Len(rhist), size |-> 0, items |-> <<>>]
            /\ RegUndefined(faults)
    /\ UNCHANGED <<regFrame, rhist>>

\* ------------------------------------------------------------ FromCodePoint
\* most FromCodePoint calls
MaxMapCalls == 2

\* most mapped sections in the map
MaxSections == 2

\* the addresses of the model: sections start and end at them, code
\* points lie at them
MaxAddr == 4
Addrs == 0 .. MaxAddr

\* a mapped section, keyed in the map by its start address
Sections == {s \in [startaddr : Addrs, endaddr : Addrs] : s.startaddr < s.endaddr}

\* the maps mappedFiles() can return: up to MaxSections sections that do
\* not overlap, in key order
SectionMaps ==
    {l \in UNION {[1 .. k -> Sections] : k \in 0 .. MaxSections} :
        \A i \in 1 .. Len(l) - 1 : l[i].endaddr <= l[i + 1].startaddr}

\* list.lower_bound(addr): the position of the first entry whose key is
\* not less than addr, Len(list)+1 (end()) when there is none
lower_bound(list, addr) ==
    IF \E i \in 1 .. Len(list) : list[i].startaddr >= addr
    THEN CHOOSE i \in 1 .. Len(list) :
             /\ list[i].startaddr >= addr
             /\ \A j \in 1 .. i - 1 : list[j].startaddr < addr
    ELSE Len(list) + 1

\* FromCodePoint(list, codepoint).  Reading it->first at end() and
\* decrementing begin() are undefined: the call faults or returns anything.
FromCodePoint(list, addr, faults) ==
    /\ mcalls < MaxMapCalls
    /\ mcalls' = mcalls + 1
    /\ mlist' = list
    /\ maddr' = addr
    /\ LET lb == lower_bound(list, addr)
           end == Len(list) + 1
           undefined == [kind |-> IF faults THEN "fault" ELSE "undefined", it |-> end]
       IN  IF lb = end
           THEN mres' = undefined
           ELSE IF list[lb].startaddr > addr /\ lb = 1
           THEN mres' = undefined
           ELSE LET at == IF list[lb].startaddr > addr THEN lb - 1 ELSE lb
                IN  mres' = IF list[at].startaddr <= addr /\ list[at].endaddr > addr
                             THEN [kind |-> "returned", it |-> at]
                             ELSE [kind |-> "returned", it |-> end]
    /\ UNCHANGED mapFrame

\* ------------------------------------------------------- specifications
\* no batch call begun: the caller's array of freshly constructed Hash256
InitBatch ==
    /\ pc = "idle"
    /\ hashs = [i \in Msgs |-> NullHash]
    /\ start = [i \in Msgs |-> NullHash]
    /\ datas = [i \in Msgs |-> 0]
    /\ lens = [i \in Msgs |-> 0]
    /\ count = 0
    /\ no = 0
    /\ next = 0
    /\ n = 0
    /\ blks = [s \in Slots |-> NullBlk]
    /\ lengths = [s \in Slots |-> 0]
    /\ out = [s \in Slots |-> NULL]
    /\ tobefinished = <<>>
    /\ done = FALSE
    /\ calls = 0

\* a freshly constructed Hash256, no direct call made
InitOne ==
    /\ hash = NullHash
    /\ adds = 0
    /\ last = [buf |-> 0, length |-> 0, before |-> NullHash]

\* a Hash128 and a Hash256 as constructed from the values in s128, s256
InitFastFrom(s128, s256) ==
    /\ h128 \in s128
    /\ h256 \in s256
    /\ seed128 = h128
    /\ seed256 = h256
    /\ in128 = <<>>
    /\ in256 = <<>>

\* no step-by-step AddFastHashTo call begun on a Hash256 constructed from
\* the values in s256
InitParFrom(s256) ==
    /\ ppc = "idle"
    /\ \E h \in s256 : mem = [lo |-> h.lo, hi |-> h.hi, cityhash |-> <<>>]
    /\ parg = [buf |-> 0, length |-> 0, before |-> [lo |-> mem.lo, hi |-> mem.hi],
               parallel |-> FALSE]
    /\ it = <<"done", "done">>
    /\ tmp = <<(<<>>), (<<>>)>>
    /\ acc = [r0 |-> {}, w0 |-> {}, r1 |-> {}, w1 |-> {}]
    /\ pcalls = 0

\* a pair of values of one of the widths ws, built from the bytes bs,
\* not yet compared
InitCmpFrom(ws, bs) ==
    /\ cpc = "ready"
    /\ \E w \in ws : cx \in [1 .. w -> bs] /\ cy \in [1 .. w -> bs]
    /\ cres = [lt |-> FALSE, eq |-> FALSE, gt |-> FALSE, le |-> FALSE,
               ge |-> FALSE, ne |-> FALSE, mc |-> 0]

\* no random fill begun, in one of the builds lps
InitFill(lps) ==
    /\ lp64 \in lps
    /\ fpc = "idle"
    /\ fcall = [api |-> "none", size |-> 1, no |-> 0]
    /\ ftodo = <<>>
    /\ frun = NoRun
    /\ feff = NoEffect
    /\ fills = 0

\* no guard constructed yet
InitUndo ==
    /\ ug = [g \in Guards |-> NoGuard]
    /\ uruns = [a \in Guards |-> 0]
    /\ uev = [op |-> "none", guard |-> 1, dis |-> FALSE, call |-> NullCall, ran |-> 0]
    /\ uops = 0

\* the registry before its first use: nothing cached, no container
InitReg ==
    /\ rpc = "ok"
    /\ rcached = FALSE
    /\ rlive = FALSE
    /\ rcont = <<>>
    /\ rhist = <<>>
    /\ robs = [at |-> 0, size |-> 0, items |-> <<>>]

\* no FromCodePoint call made
InitMap ==
    /\ mlist = <<>>
    /\ maddr = 0
    /\ mres = [kind |-> "none", it |-> 1]
    /\ mcalls = 0

\* the objects of the other operations, freshly constructed
InitUtil ==
    /\ InitParFrom({[lo |-> <<>>, hi |-> <<>>]})
    /\ InitCmpFrom({1}, {0})
    /\ InitFill({TRUE})
    /\ InitUndo
    /\ InitReg
    /\ InitMap
    /\ InitUndo
    /\ InitReg
    /\ InitMap
    /\ InitReg
    /\ InitMap
    /\ InitMap

\* either build, everything freshly constructed
Init ==
    /\ ndebug \in BOOLEAN
    /\ InitBatch
    /\ InitOne
    /\ InitFastFrom({<<>>}, {[lo |-> <<>>, hi |-> <<>>]})
    /\ InitUtil

\* the fast-hash objects default constructed or constructed from bytes
InitFast ==
    /\ ndebug = FALSE
    /\ InitBatch
    /\ InitOne
    /\ InitFastFrom(Raw128, [lo : Raw128, hi : Raw128])
    /\ InitUtil

\* the batch call, step by step
Next ==
    \/ /\ pc \in {"idle", "returned"}
       /\ \E cnt \in 0 .. MaxMsgs :
             \E ls \in LengthArrays(cnt), ds \in DataArrays : BatchCall(cnt, ls, ds)
    \/ BatchSlot
    \/ BatchCheck
    \/ BatchAssert
    \/ \E faults \in BOOLEAN : BatchUndefined(faults)

Spec == Init /\ [][Next]_vars

\* direct calls of AddSHA256To on one Hash256
NextOne ==
    /\ adds < MaxAdds
    /\ \E buf \in Msgs, length \in Lengths : SingleAdd(buf, length)

SpecOne == Init /\ [][NextOne]_vars

\* AddFastHashTo calls on one Hash128 and one Hash256
NextFast ==
    \/ /\ Len(in128) < MaxFast
       /\ \E buf \in FastBufs, length \in FastLens : Add128(buf, length)
    \/ /\ Len(in256) < MaxFast
       /\ \E buf \in FastBufs, length \in FastLens : Add256(buf, length)

SpecFast == InitFast /\ [][NextFast]_vars

\* Hash256::AddFastHashTo with its two loop iterations interleaved
InitPar ==
    /\ ndebug = FALSE
    /\ InitBatch
    /\ InitOne
    /\ InitFastFrom({<<>>}, {[lo |-> <<>>, hi |-> <<>>]})
    /\ InitParFrom([lo : Raw128, hi : Raw128])
    /\ InitCmpFrom({1}, {0})
    /\ InitFill({TRUE})
    /\ InitUndo
    /\ InitReg
    /\ InitMap

NextPar ==
    \/ /\ ppc = "idle"
       /\ \E buf \in FastBufs, length \in FastLens : ParCall(buf, length)
    \/ SpookyRead
    \/ SpookyWrite
    \/ CityRead
    \/ CityWrite
    \/ ParStore

SpecPar == InitPar /\ [][NextPar]_vars

\* comparisons of every pair of values of either width
InitCmpAll ==
    /\ ndebug = FALSE
    /\ InitBatch
    /\ InitOne
    /\ InitFastFrom({<<>>}, {[lo |-> <<>>, hi |-> <<>>]})
    /\ InitParFrom({[lo |-> <<>>, hi |-> <<>>]})
    /\ InitCmpFrom(IntWidths, ByteVals)
    /\ InitFill({TRUE})
    /\ InitUndo
    /\ InitReg
    /\ InitMap

NextCmp == Compare

SpecCmp == InitCmpAll /\ [][NextCmp]_vars

\* random fills in either build
InitFillAll ==
    /\ ndebug = FALSE
    /\ InitBatch
    /\ InitOne
    /\ InitFastFrom({<<>>}, {[lo |-> <<>>, hi |-> <<>>]})
    /\ InitParFrom({[lo |-> <<>>, hi |-> <<>>]})
    /\ InitCmpFrom({1}, {0})
    /\ InitFill(BOOLEAN)
    /\ InitUndo
    /\ InitReg
    /\ InitMap

NextFill ==
    \/ /\ fpc \in {"idle", "returned"}
       /\ \E api \in {"fast", "quality"}, size \in IntSizes, cnt \in FillNos :
              FillCall(api, size, cnt)
    \/ FillEnter
    \/ FillWord
    \/ \E faults \in BOOLEAN : FillRemainder(faults)

SpecFill == InitFillAll /\ [][NextFill]_vars

\* one build, every object of the program freshly constructed
InitFresh ==
    /\ ndebug = FALSE
    /\ InitBatch
    /\ InitOne
    /\ InitFastFrom({<<>>}, {[lo |-> <<>>, hi |-> <<>>]})
    /\ InitUtil

\* FillRandom handed every length
NextFillRandom ==
    \/ /\ fpc \in {"idle", "returned"}
       /\ \E gen \in Generators, length \in FillLens : FillDirect(gen, length)
    \/ FillWord
    \/ \E faults \in BOOLEAN : FillRemainder(faults)

SpecFillRandom == InitFresh /\ [][NextFillRandom]_vars

\* Undoer guards in one scope
NextUndo ==
    \/ \E g \in Guards, elided \in BOOLEAN :
          \E c \in {NullCall, g} : UndoerMake(g, c, elided)
    \/ \E g \in Guards, o \in Guards : UndoerMove(g, o)
    \/ \E g \in Guards, o \in Guards : UndoerAssign(g, o)
    \/ \E g \in Guards, d \in BOOLEAN : UndoerDismiss(g, d)
    \/ \E g \in Guards, d \in BOOLEAN : UndoerUndismiss(g, d)
    \/ \E g \in Guards : UndoerDestroy(g)

SpecUndo == InitFresh /\ [][NextUndo]_vars

\* one StaticTypeRegistry
NextReg ==
    \/ \E c \in RegVals, faults \in BOOLEAN : RegisterData(c, faults)
    \/ \E c \in RegVals, faults \in BOOLEAN : UnregisterData(c, faults)
    \/ \E faults \in BOOLEAN : RegObserve(faults)

SpecReg == InitFresh /\ [][NextReg]_vars

\* FromCodePoint on every map and address
NextMap ==
    /\ mres.kind \in {"none", "returned"}
    /\ \E list \in SectionMaps, addr \in Addrs, faults \in BOOLEAN :
           FromCodePoint(list, addr, faults)

SpecMap == InitFresh /\ [][NextMap]_vars

\* ------------------------------------------------------------ properties
\* the batch call runs no longer: it returned, the process aborted on a
\* failed assertion, it died of a fault, or it went on undefined
Ended == pc \in {"returned", "aborted", "fault", "undefined"}

\* the messages of the call
Called == {i \in Msgs : i < count}

\* what AddSHA256To makes of message i from the value hashs[i] had when the
\* batch call began
Single(i) == AddSHA256To(start[i], datas[i], lens[i])

\* the blocks of a message in order: each full block, then the tail
BlocksOf(buf, length) ==
    [k \in 1 .. ((length + BlockSize - 1) \div BlockSize) |->
        <<buf, (k - 1) * BlockSize,
          IF k * BlockSize <= length THEN BlockSize
                                     ELSE length - ((k - 1) * BlockSize)>>]

\* the blocks folded into h since it was h0
Since(h, h0) == SubSeq(h.blocks, Len(h0.blocks) + 1, Len(h.blocks))

\* C1: for 4 messages of arbitrary independent lengths, when
\* BatchAddSHA256To(4, ...) is over each hashes[i] equals what AddSHA256To
\* gives for data[i], length[i] from the same starting value.
C1_BatchOfFourEqualsSingle ==
    (count = 4 /\ Ended) => \A i \in Called : hashs[i] = Single(i)

\* C2: for one buffer of any length, when BatchAddSHA256To with n = 1 is
\* over hashes[0] equals what AddSHA256To gives from the same starting value.
C2_BatchOfOneEqualsSingle ==
    (count = 1 /\ Ended) => hashs[0] = Single(0)

\* the 4 messages have the same length, a non-zero multiple of 64
EqualFullBlocks ==
    /\ count = 4
    /\ \A i \in Called : lens[i] = lens[0]
    /\ lens[0] > 0
    /\ lens[0] % BlockSize = 0

\* C3: for 4 messages of equal length, a non-zero multiple of 64, the batch
\* call comes back with every destination holding what AddSHA256To gives
\* (so that it can be applied again to the same destinations).
C3_PureFourWideEqualsSingle ==
    (EqualFullBlocks /\ Ended) =>
        (pc = "returned" /\ \A i \in Called : hashs[i] = Single(i))

\* C4: when the batch call is over, exactly the blocks of message i - its
\* full blocks in ascending order, each once, then its zero-padded tail if
\* it has one - have been folded into hashes[i], for every message i.
C4_EveryBlockOnceInOrder ==
    Ended => \A i \in Called :
                 /\ Len(hashs[i].blocks) >= Len(start[i].blocks)
                 /\ Since(hashs[i], start[i]) = BlocksOf(datas[i], lens[i])

\* C5: after a pass of the fill loop in which the input list is exhausted
\* and a slot found nothing to refill it, done is true and the 4-wide loop
\* stops.
C5_LoopStopsWhenExhausted ==
    (pc = "check" /\ no = 0 /\ \E s \in Slots : blks[s] = NullBlk) => done

\* C6: in every state, each block folded into hashes[i] since the call
\* began is a block of data[i], and no Hash256 beyond the messages of the
\* call is written.
C6_LanesWriteOwnDestination ==
    /\ \A i \in Called :
           /\ Len(hashs[i].blocks) >= Len(start[i].blocks)
           /\ \A k \in 1 .. Len(Since(hashs[i], start[i])) :
                  Since(hashs[i], start[i])[k][1] = datas[i]
    /\ \A i \in Msgs \ Called : hashs[i] = start[i]

\* C7: a zero-length message processes no blocks: AddSHA256To(data, 0)
\* leaves the Hash256 as it was, and in every state of a batch call
\* hashes[i] is as it was for every i with length[i] = 0.
C7_ZeroLengthUnchanged ==
    /\ (adds > 0 /\ last.length = 0) => hash = last.before
    /\ \A i \in Called : lens[i] = 0 => hashs[i] = start[i]

C9_EmptyInputRendersEmptyDigest ==
    (adds = 1 /\ last.length = 0) => asHexString(hash) = EmptyStringDigest

\* C10: after any calls of AddFastHashTo the lower half of the Hash256 is
\* the chain of SpookyHash results over its inputs from the lower half as
\* constructed, the upper half the chain of CityHash results from the upper
\* half as constructed (neither reads the other half); and a default
\* constructed Hash256 and Hash128 given the same inputs agree on the
\* lower 128 bits.
C10_HalvesIndependent ==
    /\ h256.lo = seed256.lo \o
                   [k \in 1 .. Len(in256) |-> <<"spooky", in256[k][1], in256[k][2]>>]
    /\ h256.hi = seed256.hi \o
                   [k \in 1 .. Len(in256) |-> <<"city", in256[k][1], in256[k][2]>>]
    /\ (seed256.lo = <<>> /\ seed128 = <<>> /\ in128 = in256) => h256.lo = h128

\* two calls with the same inputs on a default constructed Hash128 and on a
\* Hash256 whose lower half is zero and whose upper half is not
C10_Witness ==
    /\ Len(in256) = 2
    /\ in128 = in256
    /\ seed128 = <<>>
    /\ seed256.lo = <<>>
    /\ seed256.hi # <<>>
    /\ h256.lo = h128
    /\ h256.hi # h256.lo

\* C11: the two iterations of the loop in Hash256::AddFastHashTo are
\* independent: however they are ordered or interleaved the call leaves
\* the value sequential execution leaves, neither iteration reads or
\* writes a location the other writes, and the upper half is as it was
\* until both iterations are done.
C11_IterationsIndependent ==
    /\ (ppc = "idle" /\ pcalls > 0) =>
           [lo |-> mem.lo, hi |-> mem.hi] =
               Hash256AddFastHashTo(parg.before, parg.buf, parg.length)
    /\ acc.w0 \cap (acc.r1 \cup acc.w1) = {}
    /\ acc.w1 \cap (acc.r0 \cup acc.w0) = {}
    /\ ppc = "loop" => mem.hi = parg.before.hi

\* a parallel loop in which iteration 1 has read and written while
\* iteration 0 was between its read and its write
C11_Witness ==
    /\ ppc = "loop"
    /\ parg.parallel
    /\ it = <<"read", "done">>
    /\ acc.w1 = {"cityhash"}
    /\ parg.before.lo # parg.before.hi


C13_FillRandomStaysInBuffer ==
    /\ ~feff.oob
    /\ ~feff.wrapped
    /\ frun.tofill <= frun.length
    /\ fpc = "returned" => frun.tofill = frun.length


\* once the counter has wrapped the remainder loop never returns
FillWrappedNeverReturns == feff.wrapped => fpc # "returned"


\* what FillQualityRandom(ints, cnt) of elements of the given size does:
\* abort when cnt*size does not fit a size_t, else one fill of cnt*size
\* bytes from one seeded Mersenne twister
QualityEffect(size, cnt, lp) ==
    IF cnt * size > SIZE_MAX
    THEN [aborted |-> TRUE, gens |-> <<>>, bytes |-> 0]
    ELSE [aborted |-> FALSE,
          gens |-> <<[gen |-> IF lp THEN "mt19937_64" ELSE "mt19937",
                      length |-> cnt * size]>>,
          bytes |-> cnt * size]

\* C20: FillFastRandom(ints, no) does exactly what FillQualityRandom(ints,
\* no) does, for Int128 and for Int256: the same abort, else one fill of
\* the same bytes from one seeded generator of the same type, and at no
\* point a generator of the legacy code after the return.
C20_FastFillIsQualityFill ==
    fcall.api \in {"fast", "quality"} =>
        LET e == QualityEffect(fcall.size, fcall.no, lp64)
        IN  /\ \A i \in 1 .. Len(feff.gens) :
                   feff.gens[i].gen \in {"mt19937_64", "mt19937"}
            /\ Len(feff.gens) <= 1
            /\ fpc = "aborted" => e.aborted
            /\ fpc = "returned" =>
                   /\ ~e.aborted
                   /\ feff.gens = e.gens
                   /\ frun.tofill = e.bytes
                   /\ ftodo = <<>>
                   /\ ~feff.oob
            /\ (e.aborted /\ fpc # "enter") => fpc = "aborted"

\* a FillFastRandom of two Int256 that has returned, and before it a
\* call in the same build
C20_Witness ==
    /\ fcall = [api |-> "fast", size |-> 32, no |-> 2]
    /\ fpc = "returned"
    /\ frun.tofill = 64
    /\ ~lp64
    /\ fills = 2


\* C14 as stated: an action is never invoked before its guard is
\* destroyed; a destroyed guard has invoked its action exactly once if
\* dismiss() was never called on it, it did not give its action away and
\* its callable is non-null, and not at all if dismiss() was called or the
\* callable is null.
C14_RunsOnlyAtScopeExit ==
    /\ uev.ran = 1 => uev.op = "destroy"
    /\ \A g \in Guards :
           ug[g].life = "destroyed" =>
               /\ (~ug[g].called /\ ~ug[g].given /\ ug[g].call # NullCall)
                      => ug[g].ran = 1
               /\ (ug[g].called \/ ug[g].call = NullCall) => ug[g].ran = 0

\* C14, amended: an action is invoked only when its guard is destroyed or
\* is the target of a move assignment, and each of these invokes it exactly
\* once if the guard is at that moment not dismissed and its callable is
\* non-null, and not at all otherwise.
C14_RunsWhenReleasedUndismissed ==
    /\ uev.ran = 1 => uev.op \in {"destroy", "assign"}
    /\ uev.op \in {"destroy", "assign"} =>
           (uev.ran = 1) = (~uev.dis /\ uev.call # NullCall)
    /\ \A g \in Guards :
           (ug[g].life = "destroyed" /\ ug[g].call = NullCall) => ug[g].ran = 0

\* a guard that was dismissed and undismissed again has been destroyed and
\* has invoked its action
C14_Witness ==
    /\ ug[1].life = "destroyed"
    /\ ug[1].called
    /\ ug[1].ran = 1
    /\ uev.op = "destroy"
    /\ uruns[1] = 1


\* the calls h are RegisterData of distinct values followed by one
\* UnregisterData of one of them
RegisteredThenOneUnregistered(h) ==
    /\ Len(h) >= 2
    /\ \A i \in 1 .. Len(h) - 1 : h[i][1] = "reg"
    /\ \A i, j \in 1 .. Len(h) - 1 : i # j => h[i][2] # h[j][2]
    /\ h[Len(h)][1] = "unreg"

\* C15: after RegisterData of distinct values v1..vk and UnregisterData
\* of one of them, size() is k-1 and iteration yields the other values in
\* registration order.
C15_IterationInRegistrationOrder ==
    (RegisteredThenOneUnregistered(rhist) /\ robs.at = Len(rhist)) =>
        /\ rpc = "ok"
        /\ robs.size = Len(rhist) - 2
        /\ robs.items = EraseRemove([i \in 1 .. Len(rhist) - 1 |-> rhist[i][2]],
                                    rhist[Len(rhist)][2])

\* the same for two or more registered values
RegOrderKeptFromTwo ==
    Len(rhist) >= 3 => C15_IterationInRegistrationOrder


\* C16: for every map and every address FromCodePoint returns the entry
\* with startaddr <= addr < endaddr if there is one and cend() otherwise,
\* without dereferencing end() or stepping before begin().
C16_FindsContainingSection ==
    mres.kind # "none" =>
        /\ mres.kind = "returned"
        /\ \A i \in 1 .. Len(mlist) :
               (mlist[i].startaddr <= maddr /\ maddr < mlist[i].endaddr)
                   => mres.it = i
        /\ (\A i \in 1 .. Len(mlist) :
               ~(mlist[i].startaddr <= maddr /\ maddr < mlist[i].endaddr))
                   => mres.it = Len(mlist) + 1

\* the same for the lookups that have a key at or above addr and a key at
\* or below it
MapLookupRightBetweenKeys ==
    (/\ \E i \in 1 .. Len(mlist) : mlist[i].startaddr >= maddr
     /\ \E i \in 1 .. Len(mlist) : mlist[i].startaddr <= maddr)
        => C16_FindsContainingSection


\* C17: whenever control reaches the assertions that guard __sha256_int,
\* every slot holds a non-null block pointer and at least 64 bytes, so no
\* assertion fails and the step never runs on a slot that is not ready.
C17_SlotsReadyAtWideStep ==
    /\ (pc = "check" /\ ~done) => SlotsReady
    /\ pc \notin {"aborted", "fault", "undefined"}

\* the entry the deferred list should hold for message i
TailEntry(i) ==
    <<i, <<datas[i], BlockSize * (lens[i] \div BlockSize)>>, lens[i] % BlockSize>>

\* every entry of the deferred list is the entry of a message with a
\* tail, and no message has two
TailEntriesRight ==
    /\ \A k \in 1 .. Len(tobefinished) :
           \E i \in Called : lens[i] % BlockSize # 0 /\ tobefinished[k] = TailEntry(i)
    /\ \A k, l \in 1 .. Len(tobefinished) :
           k # l => tobefinished[k][1] # tobefinished[l][1]

\* after the fill loop no slot holds a message with less than 64 bytes
ShortSlotsEmptied ==
    (pc = "check" /\ ~done) =>
        \A s \in Slots : blks[s] # NullBlk => lengths[s] >= BlockSize

\* C18: a slot left with less than 64 bytes is emptied, its message is
\* pushed onto the deferred list exactly when the tail is non-zero, and
\* when the 4-wide loop is over the list holds exactly one entry
\* (hashes[i], data[i] + 64*floor(length[i]/64), length[i] mod 64) for each
\* message with length[i] mod 64 # 0.
C18_DeferredTailsComplete ==
    /\ pc # "undefined" => ShortSlotsEmptied /\ TailEntriesRight
    /\ Ended =>
           \A i \in Called :
               lens[i] % BlockSize # 0 =>
                   \E k \in 1 .. Len(tobefinished) : tobefinished[k] = TailEntry(i)

\* the occupied slots hold different messages, all of them loaded
InFlightDistinct ==
    /\ next <= count
    /\ \A s \in Slots : blks[s] # NullBlk => (out[s] # NULL /\ out[s] < next)
    /\ \A s, t \in Slots :
           (s # t /\ blks[s] # NullBlk /\ blks[t] # NullBlk) => out[s] # out[t]

\* C19: every message of the input list is loaded into a slot, in input
\* order and into an empty slot, so that the occupied slots hold different
\* messages and, when the call is over, all messages have been loaded.
C19_EveryMessageLoadedOnce ==
    /\ pc # "undefined" => InFlightDistinct
    /\ Ended => next = count


\* C21: FillQualityRandom(ints, no) aborts exactly when no*sizeof(element)
\* does not fit a size_t; otherwise (no = 0 included) it does not abort,
\* hands FillRandom the length no*sizeof(element) and returns with exactly
\* that many bytes written.
C21_AbortsExactlyOnOverflow ==
    fcall.api = "quality" =>
        LET bytes == fcall.no * fcall.size
        IN  /\ fpc = "aborted" => bytes > SIZE_MAX
            /\ fpc \in {"words", "remainder", "returned"} =>
                   /\ bytes <= SIZE_MAX
                   /\ frun.length = bytes
                   /\ frun.tofill <= bytes
            /\ fpc = "returned" => frun.tofill = bytes

\* a FillQualityRandom of Int128 whose byte count wraps to 16 has aborted
C21_Witness ==
    /\ fcall = [api |-> "quality", size |-> 16, no |-> ((SIZE_MAX + 1) \div 16) + 1]
    /\ fpc = "aborted"
    /\ FillLength(fcall.size, fcall.no) = 16


\* C22: over every sequence of constructions, moves, move assignments,
\* dismiss(), undismiss() and destructions of guards, each undo action is
\* invoked at most once.
C22_ActionRunsAtMostOnce ==
    \A a \in Guards : uruns[a] <= 1


\* C23: after every sequence of RegisterData and UnregisterData calls, also
\* one that emptied the registry, no call and no size() or iteration has
\* gone through a null or deleted container, and a value just registered
\* is in the container.
C23_ContainerValidAfterEmptied ==
    /\ rpc = "ok"
    /\ (rhist # <<>> /\ rhist[Len(rhist)][1] = "reg") =>
           /\ rlive
           /\ \E i \in 1 .. Len(rcont) : rcont[i] = rhist[Len(rhist)][2]


\* how often c is stored in the container r
RECURSIVE Occurrences(_, _)
Occurrences(r, c) ==
    IF r = <<>> THEN 0
    ELSE (IF Head(r) = c THEN 1 ELSE 0) + Occurrences(Tail(r), c)

\* C24: after every sequence of paired RegisterData and UnregisterData
\* calls that has stayed on a live container, the registry holds each
\* value as often as it was registered minus as often as it was
\* unregistered.
C24_UnregisterRemovesOneOccurrence ==
    rpc = "ok" =>
        \A c \in RegVals :
            Occurrences(rcont, c) =
                CountOps(rhist, "reg", c) - CountOps(rhist, "unreg", c)

\* the same when every value unregistered was at that time registered
\* once, or had a registration followed only by UnregisterData calls (so
\* that it was the last item)
RegOneRemovedAtTailOrSingle ==
    (\A k \in 1 .. Len(rhist) :
        rhist[k][1] = "unreg" =>
            \/ CountOps(SubSeq(rhist, 1, k - 1), "reg", rhist[k][2])
                   - CountOps(SubSeq(rhist, 1, k - 1), "unreg", rhist[k][2]) = 1
            \/ \E j \in 1 .. k - 1 :
                   /\ rhist[j] = <<"reg", rhist[k][2]>>
                   /\ \A i \in j + 1 .. k - 1 : rhist[i][1] = "unreg")
        => C24_UnregisterRemovesOneOccurrence

=============================================================================
